---- MODULE Spec2Model ----
(***************************************************************************)
(* Manifestation of jrsonnet values: the recursive JSON writer             *)
(* manifest_json_ex_buf, the string escaper escape_string_json_buf and the *)
(* ManifestFormat adapters (JsonFormat, ToStringFormat, StringFormat,      *)
(* YamlStreamFormat) of crates/jrsonnet-evaluator/src/manifest.rs.         *)
(*                                                                         *)
(* Text is a sequence of bytes (0..255), as in a Rust String.  The writer  *)
(* is a state machine over an explicit call stack: one frame per           *)
(* activation of manifest_buf / manifest_json_ex_buf.                      *)
(***************************************************************************)
EXTENDS Integers, Sequences, FiniteSets, TLC

VARIABLES
    val,          \* the root value handed to manifest_buf
    format,       \* the ManifestFormat the caller selected
    buf,          \* the output buffer (buf / out)
    cur_padding,  \* the indentation accumulator of the running JsonFormat call
    stack,        \* the call stack, innermost activation last
    status,       \* "init" | "run" | "unwind" (an Err is propagating) | "ok" | "err" |
                  \* "panic" | "traced" (std.trace printed a string as it is)
    err,          \* the failure being propagated / returned
    forced        \* history: the elements/fields forced so far, as paths from the root

vars == <<val, format, buf, cur_padding, stack, status, err, forced>>

(***************************************************************************)
(* Bounds of the model.                                                    *)
(***************************************************************************)
\* Elements/fields (at all levels together) of an input value tree.
MaxNodes == 3
\* Characters of an input text of the escaper.
MaxTextLen == 2
\* ASCII characters put before and after the multi-byte run of a long string.
MaxAffix == 2

(***************************************************************************)
(* Text helpers.                                                           *)
(***************************************************************************)
\* bytes[a..b] of Rust, 0-based and half-open.
Slice(bytes, a, b) == SubSeq(bytes, a + 1, b)

\* n copies of text s.
Repeat(s, n) == [k \in 1..(n * Len(s)) |-> s[((k - 1) % Len(s)) + 1]]

IsPrefix(p, s) == Len(p) <= Len(s) /\ SubSeq(s, 1, Len(p)) = p

\* What s holds after its first n bytes.
Suffix(s, n) == SubSeq(s, n + 1, Len(s))

(***************************************************************************)
(* String escaping.                                                        *)
(***************************************************************************)
BB == 98   \* b'b', for \x08
TT == 116  \* b't', for \x09
NN == 110  \* b'n', for \x0A
FF == 102  \* b'f', for \x0C
RR == 114  \* b'r', for \x0D
QU == 34   \* b'"', for \x22
BS == 92   \* b'\\', for \x5C
UU == 117  \* b'u', for \x00...\x1F except the ones above
NE == 0    \* __ of the source: the byte is not escaped

\* Lookup table of escape sequences, indexed by byte + 1.
ESCAPE == <<
  \* 0   1   2   3   4   5   6   7   8   9   A   B   C   D   E   F
    UU, UU, UU, UU, UU, UU, UU, UU, BB, TT, NN, UU, FF, RR, UU, UU,  \* 0
    UU, UU, UU, UU, UU, UU, UU, UU, UU, UU, UU, UU, UU, UU, UU, UU,  \* 1
    NE, NE, QU, NE, NE, NE, NE, NE, NE, NE, NE, NE, NE, NE, NE, NE,  \* 2
    NE, NE, NE, NE, NE, NE, NE, NE, NE, NE, NE, NE, NE, NE, NE, NE,  \* 3
    NE, NE, NE, NE, NE, NE, NE, NE, NE, NE, NE, NE, NE, NE, NE, NE,  \* 4
    NE, NE, NE, NE, NE, NE, NE, NE, NE, NE, NE, NE, BS, NE, NE, NE,  \* 5
    NE, NE, NE, NE, NE, NE, NE, NE, NE, NE, NE, NE, NE, NE, NE, NE,  \* 6
    NE, NE, NE, NE, NE, NE, NE, NE, NE, NE, NE, NE, NE, NE, NE, NE,  \* 7
    NE, NE, NE, NE, NE, NE, NE, NE, NE, NE, NE, NE, NE, NE, NE, NE,  \* 8
    NE, NE, NE, NE, NE, NE, NE, NE, NE, NE, NE, NE, NE, NE, NE, NE,  \* 9
    NE, NE, NE, NE, NE, NE, NE, NE, NE, NE, NE, NE, NE, NE, NE, NE,  \* A
    NE, NE, NE, NE, NE, NE, NE, NE, NE, NE, NE, NE, NE, NE, NE, NE,  \* B
    NE, NE, NE, NE, NE, NE, NE, NE, NE, NE, NE, NE, NE, NE, NE, NE,  \* C
    NE, NE, NE, NE, NE, NE, NE, NE, NE, NE, NE, NE, NE, NE, NE, NE,  \* D
    NE, NE, NE, NE, NE, NE, NE, NE, NE, NE, NE, NE, NE, NE, NE, NE,  \* E
    NE, NE, NE, NE, NE, NE, NE, NE, NE, NE, NE, NE, NE, NE, NE, NE  \* F
>>

\* b"0123456789abcdef"
HEX_DIGITS == <<48, 49, 50, 51, 52, 53, 54, 55, 56, 57, 97, 98, 99, 100, 101, 102>>

\* The UU arm with the nibbles taken from the wrong halves of the byte.
escape_unicode_SwappedNibbles(byte) ==
    <<92, 117, 48, 48, HEX_DIGITS[(byte % 16) + 1], HEX_DIGITS[(byte \div 16) + 1]>>

\* The UU arm: \u00XX with HEX_DIGITS[byte >> 4], HEX_DIGITS[byte & 0xF].
escape_unicode(byte) ==
    <<92, 117, 48, 48, HEX_DIGITS[(byte \div 16) + 1], HEX_DIGITS[(byte % 16) + 1]>>

\* `match escape`: what is written for a byte whose table entry is `escape`.
escape_sequence(escape, byte) ==
    IF escape \in {BB, TT, NN, FF, RR, QU, BS}
    THEN <<92, escape>>
    ELSE escape_unicode(byte)

\* `if start < i { buf.extend_from_slice(&bytes[start..i]) }`
flush_run(bytes, start, i, out) ==
    IF start < i THEN out \o Slice(bytes, start, i) ELSE out

RECURSIVE escape_loop(_, _, _, _)
\* The `for (i, &byte) in bytes.iter().enumerate()` loop from index i on, with
\* `start` and the buffer as they stand; yields the final start and buffer.
\* Bytes whose table entry is NE are passed over (`continue`): the loop acts at
\* the first escaped byte at or after i.
escape_loop(bytes, i, start, out) ==
    LET escaped == {j \in i..(Len(bytes) - 1) : ESCAPE[bytes[j + 1] + 1] # NE}
    IN  IF escaped = {}
        THEN [start |-> start, out |-> out]
        ELSE LET j == CHOOSE j \in escaped : \A k \in escaped : j <= k
                 byte == bytes[j + 1]
                 escape == ESCAPE[byte + 1]
             IN  escape_loop(bytes, j + 1, j + 1,
                             flush_run(bytes, start, j, out) \o escape_sequence(escape, byte))

\* escape_string_json_buf(value, buf): the buffer after the call.
escape_string_json_buf(value, out) ==
    LET r == escape_loop(value, 0, 0, Append(out, 34))
    IN  IF r.start = Len(value)
        THEN Append(r.out, 34)
        ELSE Append(r.out \o Slice(value, r.start, Len(value)), 34)

\* escape_string_json(s): a fresh buffer, escaped into.
escape_string_json(s) == escape_string_json_buf(s, <<>>)

(***************************************************************************)
(* The value model (Val).  An array holds thunks; an object holds its      *)
(* visible fields in the order obj.iter() yields them, and whether its     *)
(* pending assertions pass.  A thunk is its outcome when forced.           *)
(***************************************************************************)
VBool(b) == [t |-> "Bool", b |-> b]
VNull == [t |-> "Null"]
VStr(s) == [t |-> "Str", s |-> s]
VNum(n) == [t |-> "Num", n |-> n]
VArr(items) == [t |-> "Arr", items |-> items]
VObj(assertions_ok, fields) ==
    [t |-> "Obj", assertions_ok |-> assertions_ok, fields |-> fields]
VFunc == [t |-> "Func"]

\* A thunk that evaluates to v, and one whose evaluation fails.
Evaluated(v) == [ok |-> TRUE, v |-> v]
Failing == [ok |-> FALSE]

\* val.value_type(), as the messages print it.
value_type(v) ==
    CASE v.t = "Bool" -> "boolean"
      [] v.t = "Null" -> "null"
      [] v.t = "Str"  -> "string"
      [] v.t = "Num"  -> "number"
      [] v.t = "Arr"  -> "array"
      [] v.t = "Obj"  -> "object"
      [] v.t = "Func" -> "function"

\* The thunks a container yields, in iteration order.
Children(v) ==
    CASE v.t = "Arr" -> v.items
      [] v.t = "Obj" -> [k \in 1..Len(v.fields) |-> v.fields[k].value]
      [] OTHER -> <<>>

(***************************************************************************)
(* Failures.  A failure keeps its message (its category) and the           *)
(* description frames put on it so far, innermost first.                   *)
(***************************************************************************)
NoError == [msg |-> "", trail |-> <<>>]
Error(msg) == [msg |-> msg, trail |-> <<>>]

\* The failure a thunk (array element, object field) yields when forced.
EvaluationError == Error("evaluation failed")
\* The failure of obj.run_assertions().
AssertionError == Error("assertion failed")

\* The label `elem <i> evaluation` / `field <key> manifestification` ...
DescElem(i, tier) == [what |-> "elem", idx |-> i, key |-> <<>>, tier |-> tier]
DescField(i, key, tier) == [what |-> "field", idx |-> i, key |-> key, tier |-> tier]

\* ResultExt::with_description on an Err: the label is added, the category kept.
with_description(e, desc) == [e EXCEPT !.trail = Append(@, desc)]

\* in_description_frame on an Err of the inner call: the label is added.
in_description_frame(e, desc) == [e EXCEPT !.trail = Append(@, desc)]

(***************************************************************************)
(* Format descriptors (JsonFormat) and the ManifestFormat implementations. *)
(* preserve_order and preserve_bigints are compiled in by cargo features   *)
(* only and are left out.                                                  *)
(***************************************************************************)
None == [some |-> FALSE]
Some(x) == [some |-> TRUE, v |-> x]

Spaces(n) == Repeat(<<32>>, n)

\* JsonFormat::minify
minify ==
    [padding |-> <<>>, mtype |-> "Minify", newline |-> <<10>>,
     key_val_sep |-> <<58>>, debug_truncate_strings |-> None]

\* JsonFormat::std_to_string_helper
std_to_string_helper ==
    [padding |-> <<>>, mtype |-> "ToString", newline |-> <<10>>,
     key_val_sep |-> <<58, 32>>, debug_truncate_strings |-> None]

\* JsonFormat::std_to_json
std_to_json(padding, newline, key_val_sep) ==
    [padding |-> padding, mtype |-> "Std", newline |-> newline,
     key_val_sep |-> key_val_sep, debug_truncate_strings |-> None]

\* JsonFormat::cli
JsonFormat_cli(padding) ==
    IF padding = 0
    THEN minify
    ELSE [padding |-> Spaces(padding), mtype |-> "Manifest", newline |-> <<10>>,
          key_val_sep |-> <<58, 32>>, debug_truncate_strings |-> None]

\* JsonFormat::debug
debug ==
    [padding |-> Spaces(3), mtype |-> "Manifest", newline |-> <<10>>,
     key_val_sep |-> <<58, 32>>, debug_truncate_strings |-> Some(256)]

\* <JsonFormat as Default>::default
JsonFormat_default ==
    [padding |-> Spaces(4), mtype |-> "Manifest", newline |-> <<10>>,
     key_val_sep |-> <<58, 32>>, debug_truncate_strings |-> None]

JsonFormat(options) == [impl |-> "JsonFormat", json |-> options]
ToStringFormat == [impl |-> "ToStringFormat"]
StringFormat == [impl |-> "StringFormat"]

\* YamlStreamFormat::std_yaml_stream
std_yaml_stream(inner, c_document_end) ==
    [impl |-> "YamlStreamFormat", inner |-> inner,
     c_document_end |-> c_document_end, end_newline |-> TRUE]

\* YamlStreamFormat::cli
YamlStreamFormat_cli(inner) ==
    [impl |-> "YamlStreamFormat", inner |-> inner,
     c_document_end |-> TRUE, end_newline |-> FALSE]

(***************************************************************************)
(* The scalar arms of manifest_json_ex_buf.                                *)
(***************************************************************************)
\* str::is_char_boundary: the start, the end, or a byte that is no UTF-8
\* continuation byte (0x80..0xBF).
is_char_boundary(s, index) ==
    \/ index = 0
    \/ index = Len(s)
    \/ index < Len(s) /\ ~(s[index + 1] \in 128..191)

\* str::split_at(mid) does not panic: mid is on a character boundary.
split_at_ok(s, mid) == mid <= Len(s) /\ is_char_boundary(s, mid)

\* `flat.len() > truncate`: the length of a str is its length in bytes.
exceeds_truncate(flat, truncate) == Len(flat) > truncate

\* The Val::Str arm: [panic, out], out being the buffer afterwards.
manifest_str(s, out, options) ==
    LET flat == s
    IN  IF options.debug_truncate_strings.some
           /\ exceeds_truncate(flat, options.debug_truncate_strings.v)
        THEN LET truncate == options.debug_truncate_strings.v
                 half == truncate \div 2
                 start == Slice(flat, 0, half)
                 end1 == Slice(flat, half, Len(flat))
                 cut == Len(end1) - half
             IN  IF split_at_ok(flat, half) /\ split_at_ok(end1, cut)
                 THEN [panic |-> FALSE,
                       out |-> escape_string_json_buf(
                                   start \o <<46, 46>> \o Slice(end1, cut, Len(end1)), out)]
                 ELSE [panic |-> TRUE, out |-> out]
        ELSE [panic |-> FALSE, out |-> escape_string_json_buf(flat, out)]

RECURSIVE num_display(_)
\* `write!(buf, "{n}")` for the numbers of the model, the naturals.
num_display(n) ==
    IF n < 10 THEN <<48 + n>> ELSE Append(num_display(n \div 10), 48 + (n % 10))

\* The Bool, Null, Str and Num arms: [panic, out].
manifest_scalar(v, out, options) ==
    CASE v.t = "Bool" ->
           [panic |-> FALSE,
            out |-> out \o (IF v.b THEN <<116, 114, 117, 101>>          \* true
                                   ELSE <<102, 97, 108, 115, 101>>)]    \* false
      [] v.t = "Null" -> [panic |-> FALSE, out |-> out \o <<110, 117, 108, 108>>]
      [] v.t = "Str"  -> manifest_str(v.s, out, options)
      [] v.t = "Num"  -> [panic |-> FALSE, out |-> out \o num_display(v.n)]

(***************************************************************************)
(* The call stack.  A frame is one activation: of a ManifestFormat's       *)
(* manifest_buf (fn is the implementation, options the format) or of       *)
(* manifest_json_ex_buf (options the JsonFormat).  path and pad_in are     *)
(* history: where the frame's value sits in the root value, and what       *)
(* cur_padding held when the activation began.                             *)
(***************************************************************************)
Activation(fn, options, v, path, pad) ==
    [fn |-> fn, options |-> options, v |-> v, pc |-> "entry", i |-> 0,
     old_len |-> 0, had_items |-> FALSE, path |-> path, pad_in |-> pad]

Top == stack[Len(stack)]
Front(s) == SubSeq(s, 1, Len(s) - 1)
Last(s) == s[Len(s)]
SetTop(f) == [stack EXCEPT ![Len(stack)] = f]

Running(fn, pc) ==
    /\ status = "run"
    /\ stack # <<>>
    /\ Top.fn = fn
    /\ Top.pc = pc

\* The caller's loop goes on to its next element once the inner call returned
\* Ok; YamlStreamFormat first ends the document with a newline.
ResumedCaller(rest) ==
    [rest EXCEPT ![Len(rest)].i = @ + 1]

\* The top activation returns Ok(()), the buffer being out.
ReturnOk(out) ==
    LET rest == Front(stack)
    IN  /\ stack' = IF rest = <<>> THEN rest ELSE ResumedCaller(rest)
        /\ buf' = IF rest # <<>> /\ Last(rest).fn = "YamlStreamFormat"
                  THEN Append(out, 10)
                  ELSE out
        /\ status' = IF rest = <<>> THEN "ok" ELSE "run"
        /\ err' = err

\* The top activation returns Err(e), the buffer being out.
ReturnErr(e, out) ==
    /\ stack' = Front(stack)
    /\ buf' = out
    /\ status' = IF Len(stack) = 1 THEN "err" ELSE "unwind"
    /\ err' = e

(***************************************************************************)
(* ManifestFormat::manifest and the manifest_buf implementations.          *)
(***************************************************************************)
\* ManifestFormat::manifest: a fresh buffer, then self.manifest_buf(val, out).
manifest ==
    /\ status = "init"
    /\ stack = <<>>
    /\ stack' = <<Activation(format.impl, format, val, <<>>, cur_padding)>>
    /\ buf' = <<>>
    /\ status' = "run"
    /\ UNCHANGED <<val, format, cur_padding, err, forced>>

\* JsonFormat::manifest_buf: manifest_json_ex_buf with a new, empty cur_padding.
JsonFormat_manifest_buf ==
    /\ Running("JsonFormat", "entry")
    /\ cur_padding' = <<>>
    /\ stack' = SetTop(Activation("manifest_json_ex_buf", Top.options.json, Top.v,
                                  Top.path, <<>>))
    /\ UNCHANGED <<val, format, buf, status, err, forced>>

\* ToStringFormat::manifest_buf: a string as it is, anything else through
\* JSON_TO_STRING.manifest_buf.
ToStringFormat_manifest_buf ==
    /\ Running("ToStringFormat", "entry")
    /\ IF Top.v.t = "Str"
       THEN ReturnOk(buf \o Top.v.s)
       ELSE /\ stack' = SetTop(Activation("JsonFormat", JsonFormat(std_to_string_helper),
                                          Top.v, Top.path, cur_padding))
            /\ UNCHANGED <<buf, status, err>>
    /\ UNCHANGED <<val, format, cur_padding, forced>>

\* StringFormat::manifest_buf
StringFormat_manifest_buf ==
    /\ Running("StringFormat", "entry")
    /\ IF Top.v.t = "Str"
       THEN ReturnOk(buf \o Top.v.s)
       ELSE ReturnErr([msg |-> "output should be string for string manifest format",
                       got |-> value_type(Top.v), trail |-> <<>>], buf)
    /\ UNCHANGED <<val, format, cur_padding, forced>>

\* `elem <i> evaluation`
elem_evaluation(i) == DescElem(i, "evaluation")
\* A label of the inner call that names the wrong phase.
elem_manifestification_AsEvaluation(i) == DescElem(i, "evaluation")
\* `elem <i> manifestification`
elem_manifestification(i) == DescElem(i, "manifestification")
\* `field <key> evaluation`
field_evaluation(i, key) == DescField(i, key, "evaluation")
\* `field <key> manifestification`
field_manifestification(i, key) == DescField(i, key, "manifestification")

\* YamlStreamFormat::manifest_buf, up to its loop: the root must be an array.
YamlStreamFormat_manifest_buf ==
    /\ Running("YamlStreamFormat", "entry")
    /\ IF Top.v.t = "Arr"
       THEN /\ stack' = SetTop([Top EXCEPT !.pc = "loop"])
            /\ UNCHANGED <<buf, status, err>>
       ELSE ReturnErr([msg |-> "output should be array for yaml stream format",
                       got |-> value_type(Top.v), trail |-> <<>>], buf)
    /\ UNCHANGED <<val, format, cur_padding, forced>>

\* One turn of the loop of YamlStreamFormat::manifest_buf, up to the inner call.
YamlStreamFormat_elem ==
    /\ Running("YamlStreamFormat", "loop")
    /\ Top.i < Len(Top.v.items)
    /\ LET i == Top.i
           item == Top.v.items[i + 1]
       IN  /\ forced' = Append(forced, Top.path \o <<i>>)
           /\ IF item.ok
              THEN /\ buf' = buf \o <<45, 45, 45, 10>>
                   /\ stack' = Append(stack,
                                      Activation(Top.options.inner.impl, Top.options.inner,
                                                 item.v, Top.path \o <<i>>, cur_padding))
                   /\ UNCHANGED <<status, err>>
              ELSE ReturnErr(with_description(EvaluationError, elem_evaluation(i)), buf)
    /\ UNCHANGED <<val, format, cur_padding>>

\* An end of stream whose newline is written only after the marker.
stream_end_NewlineOnlyAfterMarker(options) ==
    IF options.c_document_end
    THEN <<46, 46, 46>> \o (IF options.end_newline THEN <<10>> ELSE <<>>)
    ELSE <<>>

\* `if self.c_document_end { out.push_str("...") }`,
\* `if self.end_newline { out.push('\n') }`
stream_end(options) ==
    (IF options.c_document_end THEN <<46, 46, 46>> ELSE <<>>)
    \o (IF options.end_newline THEN <<10>> ELSE <<>>)

\* After the loop of YamlStreamFormat::manifest_buf: the end marker, the newline.
YamlStreamFormat_end ==
    /\ Running("YamlStreamFormat", "loop")
    /\ Top.i = Len(Top.v.items)
    /\ ReturnOk(buf \o stream_end(Top.options))
    /\ UNCHANGED <<val, format, cur_padding, forced>>

(***************************************************************************)
(* manifest_json_ex_buf.                                                   *)
(***************************************************************************)
\* The Bool, Null, Str and Num arms.
manifest_json_ex_buf_scalar ==
    /\ Running("manifest_json_ex_buf", "entry")
    /\ Top.v.t \in {"Bool", "Null", "Str", "Num"}
    /\ LET r == manifest_scalar(Top.v, buf, Top.options)
       IN  IF r.panic
           THEN /\ status' = "panic"
                /\ UNCHANGED <<buf, stack, err>>
           ELSE ReturnOk(r.out)
    /\ UNCHANGED <<val, format, cur_padding, forced>>

\* A Func arm that writes the function as null.
manifest_json_ex_buf_Func_AsNull ==
    /\ Running("manifest_json_ex_buf", "entry")
    /\ Top.v.t = "Func"
    /\ ReturnOk(buf \o <<110, 117, 108, 108>>)
    /\ UNCHANGED <<val, format, cur_padding, forced>>

\* The Val::Func arm: bail!("tried to manifest function").
manifest_json_ex_buf_Func ==
    /\ Running("manifest_json_ex_buf", "entry")
    /\ Top.v.t = "Func"
    /\ ReturnErr(Error("tried to manifest function"), buf)
    /\ UNCHANGED <<val, format, cur_padding, forced>>

\* An opening that does not remember the length of cur_padding.
container_open_NoOldLen(f, pad) ==
    [f EXCEPT !.pc = "loop", !.old_len = 0]

\* `let old_len = cur_padding.len()` and the start of the loop.
container_open(f, pad) ==
    [f EXCEPT !.pc = "loop", !.old_len = Len(pad)]

\* The Val::Arr arm up to its loop.
manifest_json_ex_buf_Arr ==
    /\ Running("manifest_json_ex_buf", "entry")
    /\ Top.v.t = "Arr"
    /\ buf' = Append(buf, 91)
    /\ stack' = SetTop(container_open(Top, cur_padding))
    /\ cur_padding' = cur_padding \o Top.options.padding
    /\ UNCHANGED <<val, format, status, err, forced>>

\* An Obj arm that opens the brace before it runs the assertions.
manifest_json_ex_buf_Obj_BraceFirst ==
    /\ Running("manifest_json_ex_buf", "entry")
    /\ Top.v.t = "Obj"
    /\ IF Top.v.assertions_ok
       THEN /\ buf' = Append(buf, 123)
            /\ stack' = SetTop(container_open(Top, cur_padding))
            /\ cur_padding' = cur_padding \o Top.options.padding
            /\ UNCHANGED <<status, err>>
       ELSE /\ ReturnErr(AssertionError, Append(buf, 123))
            /\ UNCHANGED cur_padding
    /\ UNCHANGED <<val, format, forced>>

\* The Val::Obj arm up to its loop: the assertions run first.
manifest_json_ex_buf_Obj ==
    /\ Running("manifest_json_ex_buf", "entry")
    /\ Top.v.t = "Obj"
    /\ IF Top.v.assertions_ok
       THEN /\ buf' = Append(buf, 123)
            /\ stack' = SetTop(container_open(Top, cur_padding))
            /\ cur_padding' = cur_padding \o Top.options.padding
            /\ UNCHANGED <<status, err>>
       ELSE /\ ReturnErr(AssertionError, buf)
            /\ UNCHANGED cur_padding
    /\ UNCHANGED <<val, format, forced>>

\* A separator whose comma also precedes the first element.
item_separator_CommaFirst(i, options, pad) ==
    <<44>> \o
    (CASE options.mtype \in {"Manifest", "Std"} -> options.newline \o pad
       [] options.mtype = "ToString" /\ i # 0 -> <<32>>
       [] OTHER -> <<>>)

\* `if i != 0 { buf.push(',') }` and `match mtype`: what precedes element i.
item_separator(i, options, pad) ==
    (IF i # 0 THEN <<44>> ELSE <<>>) \o
    (CASE options.mtype \in {"Manifest", "Std"} -> options.newline \o pad
       [] options.mtype = "ToString" /\ i # 0 -> <<32>>
       [] OTHER -> <<>>)

\* The buffer of a turn that writes its separator before it forces the element.
failed_item_buf_SeparatorFirst(out, i, options, pad) ==
    out \o item_separator(i, options, pad)

\* The buffer when forcing element i failed: `?` returns before anything is
\* pushed for it.
failed_item_buf(out, i, options, pad) == out

\* One turn of the loop of the Val::Arr arm, up to the inner call.
manifest_json_ex_buf_Arr_item ==
    /\ Running("manifest_json_ex_buf", "loop")
    /\ Top.v.t = "Arr"
    /\ Top.i < Len(Top.v.items)
    /\ LET i == Top.i
           item == Top.v.items[i + 1]
       IN  /\ forced' = Append(forced, Top.path \o <<i>>)
           /\ IF item.ok
              THEN /\ buf' = buf \o item_separator(i, Top.options, cur_padding)
                   /\ stack' = Append(SetTop([Top EXCEPT !.had_items = TRUE]),
                                      Activation("manifest_json_ex_buf", Top.options, item.v,
                                                 Top.path \o <<i>>, cur_padding))
                   /\ UNCHANGED <<status, err>>
              ELSE ReturnErr(with_description(EvaluationError, elem_evaluation(i)),
                             failed_item_buf(buf, i, Top.options, cur_padding))
    /\ UNCHANGED <<val, format, cur_padding>>

\* One turn of the loop of the Val::Obj arm, up to the inner call.
manifest_json_ex_buf_Obj_field ==
    /\ Running("manifest_json_ex_buf", "loop")
    /\ Top.v.t = "Obj"
    /\ Top.i < Len(Top.v.fields)
    /\ LET i == Top.i
           key == Top.v.fields[i + 1].key
           value == Top.v.fields[i + 1].value
       IN  /\ forced' = Append(forced, Top.path \o <<i>>)
           /\ IF value.ok
              THEN /\ buf' = escape_string_json_buf(
                                 key, buf \o item_separator(i, Top.options, cur_padding))
                             \o Top.options.key_val_sep
                   /\ stack' = Append(SetTop([Top EXCEPT !.had_items = TRUE]),
                                      Activation("manifest_json_ex_buf", Top.options, value.v,
                                                 Top.path \o <<i>>, cur_padding))
                   /\ UNCHANGED <<status, err>>
              ELSE ReturnErr(with_description(EvaluationError, field_evaluation(i, key)),
                             failed_item_buf(buf, i, Top.options, cur_padding))
    /\ UNCHANGED <<val, format, cur_padding>>

\* A closing sequence that indents with the padding of the level being left.
closing_sequence_StaleIndent(had_items, options, pad) ==
    CASE options.mtype \in {"Manifest", "ToString"} /\ ~had_items -> <<32>>
      [] options.mtype = "Manifest" -> options.newline \o pad \o options.padding
      [] options.mtype = "Std" ->
           (IF ~had_items THEN options.newline ELSE <<>>) \o options.newline \o pad
      [] OTHER -> <<>>

\* The `match mtype` after the loop: what precedes the closing bracket or brace,
\* pad being cur_padding after its truncation.
closing_sequence(had_items, options, pad) ==
    CASE options.mtype \in {"Manifest", "ToString"} /\ ~had_items -> <<32>>
      [] options.mtype = "Manifest" -> options.newline \o pad
      [] options.mtype = "Std" ->
           (IF ~had_items THEN options.newline ELSE <<>>) \o options.newline \o pad
      [] OTHER -> <<>>

\* After the loop of the Val::Arr arm.
manifest_json_ex_buf_Arr_end ==
    /\ Running("manifest_json_ex_buf", "loop")
    /\ Top.v.t = "Arr"
    /\ Top.i = Len(Top.v.items)
    /\ cur_padding' = SubSeq(cur_padding, 1, Top.old_len)
    /\ ReturnOk(Append(buf \o closing_sequence(Top.had_items, Top.options, cur_padding'), 93))
    /\ UNCHANGED <<val, format, forced>>

\* After the loop of the Val::Obj arm.
manifest_json_ex_buf_Obj_end ==
    /\ Running("manifest_json_ex_buf", "loop")
    /\ Top.v.t = "Obj"
    /\ Top.i = Len(Top.v.fields)
    /\ cur_padding' = SubSeq(cur_padding, 1, Top.old_len)
    /\ ReturnOk(Append(buf \o closing_sequence(Top.had_items, Top.options, cur_padding'), 125))
    /\ UNCHANGED <<val, format, forced>>

\* The description frame the caller puts on the failure of its inner call.
inner_call_description(f) ==
    IF f.fn = "manifest_json_ex_buf" /\ f.v.t = "Obj"
    THEN field_manifestification(f.i, f.v.fields[f.i + 1].key)
    ELSE elem_manifestification(f.i)

\* The inner call returned Err: in_description_frame labels it and `?` returns
\* it from the caller, which does nothing more.
propagate ==
    /\ status = "unwind"
    /\ stack # <<>>
    /\ ReturnErr(in_description_frame(err, inner_call_description(Top)), buf)
    /\ UNCHANGED <<val, format, cur_padding, forced>>

(***************************************************************************)
(* The inputs: every value tree of at most MaxNodes elements and fields,   *)
(* each of them a string, a function, a container or a failing thunk, and  *)
(* the formats the constructors build.                                     *)
(***************************************************************************)
\* The key of the k-th field: a, b, c, ... (obj.iter() yields sorted keys).
KeyOf(k) == <<96 + k>>

FieldsOf(items) == [k \in 1..Len(items) |-> [key |-> KeyOf(k), value |-> items[k]]]

\* The containers whose elements / field values are the thunks `items`.
ContainersOf(items) ==
    {VArr(items)} \cup {VObj(ok, FieldsOf(items)) : ok \in BOOLEAN}

Leaves == {VStr(<<120>>), VFunc}

RECURSIVE ThunkSeqs(_)
RECURSIVE ThunksOfSize(_)
\* The thunks whose value tree has exactly n nodes, the thunk's own included.
ThunksOfSize(n) ==
    IF n = 1
    THEN {Failing} \cup {Evaluated(v) : v \in Leaves \cup ContainersOf(<<>>)}
    ELSE {Evaluated(c) : c \in UNION {ContainersOf(items) : items \in ThunkSeqs(n - 1)}}

\* The sequences of thunks of exactly n nodes together.
ThunkSeqs(n) ==
    IF n = 0
    THEN {<<>>}
    ELSE UNION {{<<t>> \o rest : t \in ThunksOfSize(k), rest \in ThunkSeqs(n - k)} : k \in 1..n}

Values ==
    Leaves \cup UNION {ContainersOf(items) : items \in UNION {ThunkSeqs(n) : n \in 0..MaxNodes}}

\* {"a": 1, "b": [true, null]}
ExampleObject ==
    VObj(TRUE,
         <<[key |-> <<97>>, value |-> Evaluated(VNum(1))],
           [key |-> <<98>>,
            value |-> Evaluated(VArr(<<Evaluated(VBool(TRUE)), Evaluated(VNull)>>))]>>)

\* ["x", "y"]
ExampleStream == VArr(<<Evaluated(VStr(<<120>>)), Evaluated(VStr(<<121>>))>>)

\* "hi"
ExampleString == VStr(<<104, 105>>)

Formats ==
    {JsonFormat(minify),
     JsonFormat(JsonFormat_default),
     JsonFormat(std_to_json(Spaces(3), <<10>>, <<58, 32>>)),
     ToStringFormat,
     StringFormat,
     YamlStreamFormat_cli(JsonFormat(minify)),
     std_yaml_stream(JsonFormat(JsonFormat_cli(2)), FALSE),
     std_yaml_stream(StringFormat, TRUE)}

Init ==
    /\ val \in Values \cup {ExampleObject, ExampleStream, ExampleString}
    /\ format \in Formats
    /\ buf = <<>>
    /\ cur_padding = <<>>
    /\ stack = <<>>
    /\ status = "init"
    /\ err = NoError
    /\ forced = <<>>

Next ==
    \/ manifest
    \/ JsonFormat_manifest_buf
    \/ ToStringFormat_manifest_buf
    \/ StringFormat_manifest_buf
    \/ YamlStreamFormat_manifest_buf
    \/ YamlStreamFormat_elem
    \/ YamlStreamFormat_end
    \/ manifest_json_ex_buf_scalar
    \/ manifest_json_ex_buf_Func
    \/ manifest_json_ex_buf_Arr
    \/ manifest_json_ex_buf_Arr_item
    \/ manifest_json_ex_buf_Arr_end
    \/ manifest_json_ex_buf_Obj
    \/ manifest_json_ex_buf_Obj_field
    \/ manifest_json_ex_buf_Obj_end
    \/ propagate

Spec == Init /\ [][Next]_vars

(***************************************************************************)
(* The escaper on its own: every text of at most MaxTextLen characters     *)
(* drawn from the bytes the table tells apart, escaped into a fresh buffer *)
(* or appended to a buffer that already holds text.                        *)
(***************************************************************************)
\* Characters as their UTF-8 bytes: controls with a short escape (\b \t \n \f
\* \r), controls without (NUL, VT, US), the quote, the backslash, plain ASCII
\* (space, /, b, u, DEL), and the two-byte e-acute.
EscapeChars ==
    {<<0>>, <<8>>, <<9>>, <<10>>, <<11>>, <<12>>, <<13>>, <<31>>, <<32>>, <<34>>,
     <<47>>, <<92>>, <<98>>, <<117>>, <<127>>, <<195, 169>>}

RECURSIVE TextsOfLen(_)
TextsOfLen(n) ==
    IF n = 0 THEN {<<>>} ELSE {c \o t : c \in EscapeChars, t \in TextsOfLen(n - 1)}

EscapeTexts == UNION {TextsOfLen(n) : n \in 0..MaxTextLen}

InitEscape ==
    /\ val \in {VStr(t) : t \in EscapeTexts}
    /\ format = JsonFormat(minify)
    /\ buf \in {<<>>, <<120, 34>>}
    /\ cur_padding = <<>>
    /\ stack = <<>>
    /\ status = "init"
    /\ err = NoError
    /\ forced = <<>>

\* A call of escape_string_json(s): the result is a buffer of its own.
call_escape_string_json ==
    /\ status = "init"
    /\ buf = <<>>
    /\ buf' = escape_string_json(val.s)
    /\ status' = "ok"
    /\ UNCHANGED <<val, format, cur_padding, stack, err, forced>>

\* A call of escape_string_json_buf(value, buf) on the caller's buffer.
call_escape_string_json_buf ==
    /\ status = "init"
    /\ buf' = escape_string_json_buf(val.s, buf)
    /\ status' = "ok"
    /\ UNCHANGED <<val, format, cur_padding, stack, err, forced>>

NextEscape ==
    \/ call_escape_string_json
    \/ call_escape_string_json_buf

SpecEscape == InitEscape /\ [][NextEscape]_vars

(***************************************************************************)
(* Long strings under the truncating format: a run of one character,       *)
(* ASCII or two-byte, with up to MaxAffix ASCII characters before and      *)
(* after it, written as the root value or as the element of an array,      *)
(* through manifest or through std.trace.                                  *)
(***************************************************************************)
\* Runs of 254, 256 and 258 bytes.
LongRuns ==
    {Repeat(<<99>>, 254), Repeat(<<99>>, 256),
     Repeat(<<195, 169>>, 127), Repeat(<<195, 169>>, 128), Repeat(<<195, 169>>, 129)}

LongTexts ==
    {Repeat(<<97>>, k) \o run \o Repeat(<<98>>, m) :
        k \in 0..MaxAffix, m \in 0..MaxAffix, run \in LongRuns}

InitTruncate ==
    /\ val \in {VStr(t) : t \in LongTexts} \cup {VArr(<<Evaluated(VStr(t))>>) : t \in LongTexts}
    /\ format \in {JsonFormat(debug), JsonFormat(JsonFormat_default)}
    /\ buf = <<>>
    /\ cur_padding = <<>>
    /\ stack = <<>>
    /\ status = "init"
    /\ err = NoError
    /\ forced = <<>>

\* builtin_trace, as far as the text it prints (kept in buf): a string as it
\* is, any other value but a function through v.manifest(JsonFormat::debug()).
builtin_trace ==
    /\ status = "init"
    /\ format = JsonFormat(debug)
    /\ val.t # "Func"
    /\ IF val.t = "Str"
       THEN /\ buf' = val.s
            /\ status' = "traced"
            /\ UNCHANGED stack
       ELSE /\ buf' = <<>>
            /\ status' = "run"
            /\ stack' = <<Activation("JsonFormat", JsonFormat(debug), val, <<>>, cur_padding)>>
    /\ UNCHANGED <<val, format, cur_padding, err, forced>>

NextTruncate ==
    \/ builtin_trace
    \/ manifest
    \/ JsonFormat_manifest_buf
    \/ manifest_json_ex_buf_scalar
    \/ manifest_json_ex_buf_Arr
    \/ manifest_json_ex_buf_Arr_item
    \/ manifest_json_ex_buf_Arr_end

SpecTruncate == InitTruncate /\ [][NextTruncate]_vars

(***************************************************************************)
(* What the specification says the text is: JSON string decoding           *)
(* (RFC 8259, section 7), the escape of a text byte by byte, and the       *)
(* truncation of a long string counted in characters.  These state the     *)
(* claims; the writer above is compared with them.                         *)
(***************************************************************************)
Decoded(out) == [ok |-> TRUE, out |-> out]
Undecodable == [ok |-> FALSE, out |-> <<>>]

HexValue(h) ==
    IF h \in 48..57 THEN h - 48
    ELSE IF h \in 97..102 THEN h - 87
    ELSE IF h \in 65..70 THEN h - 55
    ELSE -1

\* The UTF-8 bytes of a code point of the basic plane.
Utf8(cp) ==
    IF cp < 128 THEN <<cp>>
    ELSE IF cp < 2048 THEN <<192 + (cp \div 64), 128 + (cp % 64)>>
    ELSE <<224 + (cp \div 4096), 128 + ((cp \div 64) % 64), 128 + (cp % 64)>>

\* The character a two-character escape stands for, -1 when there is none.
SimpleEscape(e) ==
    CASE e = 34 -> 34
      [] e = 92 -> 92
      [] e = 47 -> 47
      [] e = 98 -> 8
      [] e = 102 -> 12
      [] e = 110 -> 10
      [] e = 114 -> 13
      [] e = 116 -> 9
      [] OTHER -> -1

RECURSIVE JsonDecodeChars(_)
\* The text a run of JSON string characters (between the quotes) stands for.
JsonDecodeChars(b) ==
    IF b = <<>> THEN Decoded(<<>>)
    ELSE IF b[1] = 34 \/ b[1] < 32 THEN Undecodable
    ELSE IF b[1] # 92
         THEN LET r == JsonDecodeChars(Suffix(b, 1))
              IN  IF r.ok THEN Decoded(<<b[1]>> \o r.out) ELSE Undecodable
    ELSE IF Len(b) < 2 THEN Undecodable
    ELSE IF SimpleEscape(b[2]) # -1
         THEN LET r == JsonDecodeChars(Suffix(b, 2))
              IN  IF r.ok THEN Decoded(<<SimpleEscape(b[2])>> \o r.out) ELSE Undecodable
    ELSE IF b[2] = 117 /\ Len(b) >= 6 /\ \A k \in 3..6 : HexValue(b[k]) # -1
         THEN LET cp == 4096 * HexValue(b[3]) + 256 * HexValue(b[4])
                        + 16 * HexValue(b[5]) + HexValue(b[6])
                  r == JsonDecodeChars(Suffix(b, 6))
              IN  IF r.ok /\ ~(cp \in 55296..57343)
                  THEN Decoded(Utf8(cp) \o r.out)
                  ELSE Undecodable
    ELSE Undecodable

\* The text a JSON string literal stands for.
JsonDecode(lit) ==
    IF Len(lit) >= 2 /\ lit[1] = 34 /\ lit[Len(lit)] = 34
    THEN JsonDecodeChars(SubSeq(lit, 2, Len(lit) - 1))
    ELSE Undecodable

LowerHex(d) == IF d < 10 THEN 48 + d ELSE 87 + d

\* What one byte of the text becomes in the literal.
EscapedByte(b) ==
    CASE b = 8  -> <<92, 98>>
      [] b = 9  -> <<92, 116>>
      [] b = 10 -> <<92, 110>>
      [] b = 12 -> <<92, 102>>
      [] b = 13 -> <<92, 114>>
      [] b = 34 -> <<92, 34>>
      [] b = 92 -> <<92, 92>>
      [] b < 32 /\ ~(b \in {8, 9, 10, 12, 13}) ->
           <<92, 117, 48, 48, LowerHex(b \div 16), LowerHex(b % 16)>>
      [] OTHER -> <<b>>

RECURSIVE EscapedBytes(_, _, _)
\* The bytes lo..hi of t, each as EscapedByte makes it, in their order.
EscapedBytes(t, lo, hi) ==
    IF lo > hi THEN <<>>
    ELSE IF lo = hi THEN EscapedByte(t[lo])
    ELSE LET mid == (lo + hi) \div 2
         IN  EscapedBytes(t, lo, mid) \o EscapedBytes(t, mid + 1, hi)

\* The quoted literal of text t.
EscapedLiteral(t) == <<34>> \o EscapedBytes(t, 1, Len(t)) \o <<34>>

\* Where the characters of UTF-8 text s start, and the start of the n-th.
CharStarts(s) == {k \in 1..Len(s) : ~(s[k] \in 128..191)}
CharCount(s) == Cardinality(CharStarts(s))
NthCharStart(s, n) ==
    CHOOSE k \in CharStarts(s) : Cardinality({j \in CharStarts(s) : j < k}) = n - 1

FirstChars(s, n) ==
    IF n >= CharCount(s) THEN s ELSE SubSeq(s, 1, NthCharStart(s, n + 1) - 1)
LastChars(s, n) ==
    IF n = 0 THEN <<>>
    ELSE IF n >= CharCount(s) THEN s
    ELSE SubSeq(s, NthCharStart(s, CharCount(s) - n + 1), Len(s))

\* The text written for string s under truncation length limit (an Option).
TruncatedText(s, limit) ==
    IF limit.some /\ CharCount(s) > limit.v
    THEN FirstChars(s, limit.v \div 2) \o <<46, 46>> \o LastChars(s, limit.v \div 2)
    ELSE s

(***************************************************************************)
(* C7  String escaping inverts JSON string decoding.                       *)
(***************************************************************************)
\* C7: a call of the escaper only appends to the buffer it is given; what it
\* appends is a double-quoted literal that JSON decoding turns back into
\* exactly the text, and in which every byte >= 0x20 but the quote and the
\* backslash stands for itself, \b \t \n \f \r " \ are two-character
\* escapes, every other control byte is \u00XX in lowercase hex, in the
\* order of the text.
C7_EscapeInvertsJsonDecoding ==
    [][(status = "init" /\ status' = "ok") =>
          /\ IsPrefix(buf, buf')
          /\ LET lit == Suffix(buf', Len(buf))
             IN  /\ JsonDecode(lit) = Decoded(val.s)
                 /\ lit = EscapedLiteral(val.s)]_vars

\* A vertical tab and an e-acute were escaped after text already in the buffer:
\* x" then "\u000b<e-acute>".
C7_Witness ==
    /\ status = "ok"
    /\ val = VStr(<<11, 195, 169>>)
    /\ buf = <<120, 34, 34, 92, 117, 48, 48, 48, 98, 195, 169, 34>>

(***************************************************************************)
(* What the specification says a value is rendered as, and how a           *)
(* manifestation fails: the renderings of the four dialects and of the     *)
(* adapters, and the first failure in traversal order with the             *)
(* descriptions it collects.                                               *)
(***************************************************************************)
Done == status \in {"ok", "err", "panic"}

\* d copies of the padding.
Indent(options, d) == Repeat(options.padding, d)

\* What precedes the k-th (from 1) element of a container at depth d.
ElementLead(k, options, d) ==
    (IF k > 1 THEN <<44>> ELSE <<>>) \o
    (CASE options.mtype \in {"Manifest", "Std"} -> options.newline \o Indent(options, d + 1)
       [] options.mtype = "ToString" -> IF k > 1 THEN <<32>> ELSE <<>>
       [] options.mtype = "Minify" -> <<>>)

\* The closing-sequence table, for a container at depth d.
ClosingTable(options, empty, d) ==
    CASE options.mtype = "Minify" -> <<>>
      [] options.mtype = "ToString" -> IF empty THEN <<32>> ELSE <<>>
      [] options.mtype = "Manifest" ->
           IF empty THEN <<32>> ELSE options.newline \o Indent(options, d)
      [] options.mtype = "Std" ->
           IF empty
           THEN options.newline \o options.newline \o Indent(options, d)
           ELSE options.newline \o Indent(options, d)

RECURSIVE RenderedJson(_, _, _)
RECURSIVE RenderedItems(_, _, _, _)
\* The first n elements / fields of container v at depth d, each with its lead.
RenderedItems(v, options, d, n) ==
    IF n = 0 THEN <<>>
    ELSE RenderedItems(v, options, d, n - 1)
         \o ElementLead(n, options, d)
         \o (IF v.t = "Obj"
             THEN EscapedLiteral(v.fields[n].key) \o options.key_val_sep
             ELSE <<>>)
         \o RenderedJson(Children(v)[n].v, options, d + 1)

\* The JSON text of a value all of whose parts manifest, v being at depth d.
RenderedJson(v, options, d) ==
    CASE v.t = "Bool" -> IF v.b THEN <<116, 114, 117, 101>> ELSE <<102, 97, 108, 115, 101>>
      [] v.t = "Null" -> <<110, 117, 108, 108>>
      [] v.t = "Num" -> num_display(v.n)
      [] v.t = "Str" -> EscapedLiteral(TruncatedText(v.s, options.debug_truncate_strings))
      [] v.t = "Arr" ->
           <<91>> \o RenderedItems(v, options, d, Len(v.items))
                  \o ClosingTable(options, v.items = <<>>, d) \o <<93>>
      [] v.t = "Obj" ->
           <<123>> \o RenderedItems(v, options, d, Len(v.fields))
                   \o ClosingTable(options, v.fields = <<>>, d) \o <<125>>

RECURSIVE RenderedBy(_, _)
RECURSIVE RenderedDocuments(_, _, _)
\* The first n documents of the stream of array v.
RenderedDocuments(fmt, v, n) ==
    IF n = 0 THEN <<>>
    ELSE RenderedDocuments(fmt, v, n - 1)
         \o <<45, 45, 45, 10>> \o RenderedBy(fmt.inner, v.items[n].v) \o <<10>>

\* The output of adapter fmt for a value all of whose parts manifest.
RenderedBy(fmt, v) ==
    CASE fmt.impl = "JsonFormat" -> RenderedJson(v, fmt.json, 0)
      [] fmt.impl = "ToStringFormat" ->
           IF v.t = "Str" THEN v.s ELSE RenderedJson(v, std_to_string_helper, 0)
      [] fmt.impl = "StringFormat" -> v.s
      [] fmt.impl = "YamlStreamFormat" ->
           RenderedDocuments(fmt, v, Len(v.items))
           \o (IF fmt.c_document_end THEN <<46, 46, 46>> ELSE <<>>)
           \o (IF fmt.end_newline THEN <<10>> ELSE <<>>)

NoFailure == [failed |-> FALSE, msg |-> "", trail |-> <<>>]
Failure(msg, trail) == [failed |-> TRUE, msg |-> msg, trail |-> trail]

RECURSIVE FirstFailure(_)
\* How the recursive writer fails on v: the first failure in traversal order,
\* with one description per container level, innermost first.
FirstFailure(v) ==
    CASE v.t = "Func" -> Failure("tried to manifest function", <<>>)
      [] v.t = "Obj" /\ ~v.assertions_ok -> Failure("assertion failed", <<>>)
      [] v.t \in {"Arr", "Obj"} ->
           LET kids == Children(v)
               bad == {k \in 1..Len(kids) : ~kids[k].ok \/ FirstFailure(kids[k].v).failed}
           IN  IF bad = {} THEN NoFailure
               ELSE LET k == CHOOSE k \in bad : \A j \in bad : k <= j
                        label(tier) ==
                            IF v.t = "Arr" THEN DescElem(k - 1, tier)
                            ELSE DescField(k - 1, v.fields[k].key, tier)
                    IN  IF ~kids[k].ok
                        THEN Failure("evaluation failed", <<label("evaluation")>>)
                        ELSE Failure(FirstFailure(kids[k].v).msg,
                                     Append(FirstFailure(kids[k].v).trail,
                                            label("manifestification")))
      [] OTHER -> NoFailure

RECURSIVE FailureBy(_, _)
\* How adapter fmt fails on v.
FailureBy(fmt, v) ==
    CASE fmt.impl = "JsonFormat" -> FirstFailure(v)
      [] fmt.impl = "ToStringFormat" -> IF v.t = "Str" THEN NoFailure ELSE FirstFailure(v)
      [] fmt.impl = "StringFormat" ->
           IF v.t = "Str" THEN NoFailure
           ELSE Failure("output should be string for string manifest format", <<>>)
      [] fmt.impl = "YamlStreamFormat" ->
           IF v.t # "Arr"
           THEN Failure("output should be array for yaml stream format", <<>>)
           ELSE LET bad == {k \in 1..Len(v.items) :
                               ~v.items[k].ok \/ FailureBy(fmt.inner, v.items[k].v).failed}
                IN  IF bad = {} THEN NoFailure
                    ELSE LET k == CHOOSE k \in bad : \A j \in bad : k <= j
                         IN  IF ~v.items[k].ok
                             THEN Failure("evaluation failed",
                                          <<DescElem(k - 1, "evaluation")>>)
                             ELSE Failure(FailureBy(fmt.inner, v.items[k].v).msg,
                                          Append(FailureBy(fmt.inner, v.items[k].v).trail,
                                                 DescElem(k - 1, "manifestification")))

RECURSIVE ContainsFunc(_)
\* A function is the value or sits anywhere inside it.
ContainsFunc(v) ==
    \/ v.t = "Func"
    \/ \E k \in 1..Len(Children(v)) : Children(v)[k].ok /\ ContainsFunc(Children(v)[k].v)

\* The four dialects: the formats that hand the root to manifest_json_ex_buf.
JsonDialect == format.impl = "JsonFormat" \/ (format.impl = "ToStringFormat" /\ val.t # "Str")

\* The activations of manifest_json_ex_buf below the running one: its depth.
JsonDepth == Cardinality({k \in 1..Len(stack) : stack[k].fn = "manifest_json_ex_buf"}) - 1

(***************************************************************************)
(* C2  A function anywhere in the value.                                   *)
(***************************************************************************)
\* C2, as claimed: a value that holds a function anywhere always fails to
\* manifest, under each of the four dialects, with "tried to manifest
\* function".
C2_FunctionAlwaysThatFailure ==
    (Done /\ JsonDialect /\ ContainsFunc(val)) =>
        (status = "err" /\ err.msg = "tried to manifest function")

\* C2, amended: a value that holds a function anywhere always fails to
\* manifest, under every format; under the four dialects the failure is the
\* first one met in traversal order, so it is "tried to manifest function"
\* exactly when no element or field forced before the function fails and no
\* object entered before it fails its assertions.
C2_FunctionFailsFirstFailureWins ==
    (Done /\ ContainsFunc(val)) =>
        /\ status = "err"
        /\ JsonDialect =>
             /\ err.msg = FirstFailure(val).msg
             /\ (err.msg = "tried to manifest function") <=>
                    (FirstFailure(val).msg = "tried to manifest function")

\* A function nested two levels down was reached and refused.
C2_Witness ==
    /\ status = "err"
    /\ format = JsonFormat(minify)
    /\ val = VArr(<<Evaluated(VStr(<<120>>)), Evaluated(VArr(<<Evaluated(VFunc)>>))>>)
    /\ err.msg = "tried to manifest function"

(***************************************************************************)
(* C3  The closing sequence.                                               *)
(***************************************************************************)
EmptyContainerRenderings ==
    status = "ok" =>
        /\ (val = VArr(<<>>) /\ format = JsonFormat(minify)) => buf = <<91, 93>>
        /\ (val = VArr(<<>>) /\ format = ToStringFormat) => buf = <<91, 32, 93>>
        /\ (val = VArr(<<>>) /\ format = JsonFormat(JsonFormat_default)) => buf = <<91, 32, 93>>
        /\ (val = VArr(<<>>) /\ format.impl = "JsonFormat" /\ format.json.mtype = "Std")
               => buf = <<91, 10, 10, 93>>
        /\ (val = VObj(TRUE, <<>>) /\ format = JsonFormat(minify)) => buf = <<123, 125>>
        /\ (val = VObj(TRUE, <<>>) /\ format = ToStringFormat) => buf = <<123, 32, 125>>
        /\ (val = VObj(TRUE, <<>>) /\ format = JsonFormat(JsonFormat_default)) => buf = <<123, 32, 125>>
        /\ (val = VObj(TRUE, <<>>) /\ format.impl = "JsonFormat" /\ format.json.mtype = "Std")
               => buf = <<123, 10, 10, 125>>

\* The step that leaves a container, all its elements written.
LeavingContainer ==
    /\ status = "run"
    /\ stack # <<>>
    /\ Top.fn = "manifest_json_ex_buf"
    /\ Top.pc = "loop"
    /\ Top.i = Len(Children(Top.v))

\* C3: when the writer leaves a container at depth d, what it writes next is
\* the closing sequence of the table (Minify nothing; ToString a space if
\* empty; Manifest a space if empty, else newline and d paddings; StdLib
\* newline, newline, d paddings if empty, else newline and d paddings) and
\* then the closing bracket or brace; so the empty array and object render
\* as [] [ ] [ ] [\n\n] and {} { } { } {\n\n}.
C3_ClosingSequenceTable ==
    /\ []EmptyContainerRenderings
    /\ [][LeavingContainer =>
            IsPrefix(buf \o ClosingTable(Top.options, Children(Top.v) = <<>>, JsonDepth)
                         \o (IF Top.v.t = "Arr" THEN <<93>> ELSE <<125>>),
                     buf')]_vars

\* An empty array inside an array under StdLib with 3 spaces: [\n   [\n\n   ]\n]
C3_Witness ==
    /\ status = "ok"
    /\ val = VArr(<<Evaluated(VArr(<<>>))>>)
    /\ format = JsonFormat(std_to_json(Spaces(3), <<10>>, <<58, 32>>))
    /\ buf = <<91, 10, 32, 32, 32, 91, 10, 10, 32, 32, 32, 93, 10, 93>>

(***************************************************************************)
(* C4  Commas, separators, keys.                                           *)
(***************************************************************************)
\* C4: the text of a manifested value puts before each element or field of a
\* container at depth d a comma iff it is not the first, then newline and
\* d+1 paddings (Manifest, StdLib), a space if not the first (ToString) or
\* nothing (Minify), and writes a field as escaped key, key-value separator,
\* value; {"a": 1, "b": [true, null]} renders as the two texts of the
\* specification under Manifest with 4 spaces and under Minify.
C4_SeparatorsAndFields ==
    /\ (status = "ok" /\ JsonDialect) => buf = RenderedBy(format, val)
    /\ (Done /\ val = ExampleObject /\ format = JsonFormat(JsonFormat_cli(4))) =>
           /\ status = "ok"
           /\ buf = <<123, 10, 32, 32, 32, 32, 34, 97, 34, 58, 32, 49, 44, 10, 32, 32, 32, 32, 34, 98, 34, 58, 32, 91, 10, 32, 32, 32, 32, 32, 32, 32, 32, 116, 114, 117, 101, 44, 10, 32, 32, 32, 32, 32, 32, 32, 32, 110, 117, 108, 108, 10, 32, 32, 32, 32, 93, 10, 125>>
    /\ (Done /\ val = ExampleObject /\ format = JsonFormat(minify)) =>
           /\ status = "ok"
           /\ buf = <<123, 34, 97, 34, 58, 49, 44, 34, 98, 34, 58, 91, 116, 114, 117, 101, 44, 110, 117, 108, 108, 93, 125>>

\* The example object was written under Manifest with 4 spaces.
C4_Witness ==
    /\ status = "ok"
    /\ val = ExampleObject
    /\ format = JsonFormat(JsonFormat_cli(4))
    /\ buf = <<123, 10, 32, 32, 32, 32, 34, 97, 34, 58, 32, 49, 44, 10, 32, 32, 32, 32, 34, 98, 34, 58, 32, 91, 10, 32, 32, 32, 32, 32, 32, 32, 32, 116, 114, 117, 101, 44, 10, 32, 32, 32, 32, 32, 32, 32, 32, 110, 117, 108, 108, 10, 32, 32, 32, 32, 93, 10, 125>>

(***************************************************************************)
(* C5  The document stream.                                                *)
(***************************************************************************)
\* C5: for an array root whose elements all manifest, the stream adapter
\* succeeds and writes, per element in index order, "---\n", the inner
\* adapter's output and "\n", then "..." iff c_document_end, then "\n" iff
\* end_newline; std_yaml_stream sets end_newline, cli sets the marker and no
\* trailing newline; ["x","y"] over Minify gives ---\n"x"\n---\n"y"\n... and
\* the empty array just "...".
C5_DocumentStream ==
    /\ (status = "ok" /\ format.impl = "YamlStreamFormat") => buf = RenderedBy(format, val)
    /\ (Done /\ format.impl = "YamlStreamFormat" /\ val.t = "Arr"
             /\ ~FailureBy(format, val).failed) => status = "ok"
    /\ \A c \in BOOLEAN :
           /\ std_yaml_stream(StringFormat, c).end_newline
           /\ std_yaml_stream(StringFormat, c).c_document_end = c
    /\ YamlStreamFormat_cli(StringFormat).c_document_end
    /\ ~YamlStreamFormat_cli(StringFormat).end_newline
    /\ (Done /\ val = ExampleStream /\ format = YamlStreamFormat_cli(JsonFormat(minify))) =>
           /\ status = "ok"
           /\ buf = <<45, 45, 45, 10, 34, 120, 34, 10, 45, 45, 45, 10, 34, 121, 34, 10, 46, 46, 46>>
    /\ (Done /\ val = VArr(<<>>) /\ format = YamlStreamFormat_cli(JsonFormat(minify))) =>
           /\ status = "ok"
           /\ buf = <<46, 46, 46>>

\* ["x","y"] went through the stream adapter of the command line.
C5_Witness ==
    /\ status = "ok"
    /\ val = ExampleStream
    /\ format = YamlStreamFormat_cli(JsonFormat(minify))
    /\ buf = <<45, 45, 45, 10, 34, 120, 34, 10, 45, 45, 45, 10, 34, 121, 34, 10, 46, 46, 46>>

(***************************************************************************)
(* C1  Forcing order and abort on failure.                                 *)
(***************************************************************************)
RECURSIVE PreorderPaths(_, _)
RECURSIVE PreorderFrom(_, _, _)
\* The paths of the elements k.. of v (at `path`) and of all below them, in
\* traversal order.
PreorderFrom(v, path, k) ==
    IF k > Len(Children(v)) THEN <<>>
    ELSE <<path \o <<k - 1>>>>
         \o (IF Children(v)[k].ok
             THEN PreorderPaths(Children(v)[k].v, path \o <<k - 1>>)
             ELSE <<>>)
         \o PreorderFrom(v, path, k + 1)

\* The paths of all elements and fields inside v, in traversal order.
PreorderPaths(v, path) == PreorderFrom(v, path, 1)

\* C1: the elements and fields forced so far are, at every moment, an initial
\* part of the value's elements in traversal order (each at most once, none
\* out of order, none ahead of the writer: the one forced is the one the
\* running loop stands at); when forcing one fails the call returns at once
\* with nothing written for it, and while the failure propagates nothing
\* more is forced and nothing more is written.
C1_ForcedOnceInOrderAbortOnFailure ==
    /\ [](IsPrefix(forced, PreorderPaths(val, <<>>)))
    /\ [][/\ status = "unwind" => (buf' = buf /\ forced' = forced)
          /\ forced' # forced =>
                /\ status = "run"
                /\ forced' = Append(forced, Top.path \o <<Top.i>>)
                /\ ~Children(Top.v)[Top.i + 1].ok =>
                      /\ buf' = buf
                      /\ status' \in {"unwind", "err"}
                      /\ stack' = Front(stack)]_vars

\* ["x", <failing>, function] under Manifest: element 1 failed after element 0
\* was written, element 2 was never forced.
C1_Witness ==
    /\ status = "err"
    /\ val = VArr(<<Evaluated(VStr(<<120>>)), Failing, Evaluated(VFunc)>>)
    /\ format = JsonFormat(JsonFormat_default)
    /\ forced = <<<<0>>, <<1>>>>
    /\ buf = <<91, 10, 32, 32, 32, 32, 34, 120, 34>>

(***************************************************************************)
(* C6  Object assertions run first.                                        *)
(***************************************************************************)
RECURSIVE NodeAt(_, _)
\* The value at `path` inside v.
NodeAt(v, path) ==
    IF path = <<>> THEN v ELSE NodeAt(Children(v)[path[1] + 1].v, Suffix(path, 1))

EnteringFailingObject ==
    /\ status = "run"
    /\ stack # <<>>
    /\ Top.fn = "manifest_json_ex_buf"
    /\ Top.pc = "entry"
    /\ Top.v.t = "Obj"
    /\ ~Top.v.assertions_ok

\* C6: no field is forced of an object whose assertions fail and the writer
\* is never inside one; the call of the writer on such an object writes
\* nothing, forces nothing and returns the assertion failure, which keeps
\* its category while it propagates and is what the manifestation returns.
C6_AssertionsRunBeforeObjectIsWritten ==
    /\ [](\A k \in 1..Len(forced) :
             LET parent == NodeAt(val, Front(forced[k]))
             IN  parent.t = "Obj" => parent.assertions_ok)
    /\ [](\A k \in 1..Len(stack) :
             (stack[k].fn = "manifest_json_ex_buf" /\ stack[k].v.t = "Obj"
              /\ stack[k].pc = "loop") => stack[k].v.assertions_ok)
    /\ []((status = "err" /\ JsonDialect /\ FirstFailure(val).msg = "assertion failed")
             => err.msg = "assertion failed")
    /\ [][/\ EnteringFailingObject =>
                /\ buf' = buf
                /\ forced' = forced
                /\ status' \in {"unwind", "err"}
                /\ err'.msg = "assertion failed"
          /\ status = "unwind" => (err'.msg = err.msg /\ buf' = buf /\ forced' = forced)]_vars

\* ["x", {a: "x"}] under Minify, the object's assertions failing: ["x", was
\* written, the field was not forced.
C6_Witness ==
    /\ status = "err"
    /\ val = VArr(<<Evaluated(VStr(<<120>>)),
                    Evaluated(VObj(FALSE, FieldsOf(<<Evaluated(VStr(<<120>>))>>)))>>)
    /\ format = JsonFormat(minify)
    /\ forced = <<<<0>>, <<1>>>>
    /\ buf = <<91, 34, 120, 34, 44>>
    /\ err.msg = "assertion failed"

(***************************************************************************)
(* C8  The indentation accumulator.                                        *)
(***************************************************************************)
\* While the writer runs, cur_padding holds one padding per container it is
\* inside: d+1 copies while an element at depth d is written.
PaddingTracksDepth ==
    (status = "run" /\ stack # <<>> /\ Top.fn = "manifest_json_ex_buf") =>
        cur_padding = Indent(Top.options, JsonDepth + (IF Top.pc = "loop" THEN 1 ELSE 0))

\* C8, as claimed: whenever manifest_json_ex_buf returns, Ok or Err,
\* cur_padding is what it was when that call was entered; and an element at
\* depth d is written under d+1 copies of the padding.
C8_PaddingRestoredOnEveryReturn ==
    /\ []PaddingTracksDepth
    /\ [][(stack # <<>> /\ Top.fn = "manifest_json_ex_buf" /\ stack' = Front(stack))
             => cur_padding' = Top.pad_in]_vars

\* C8, amended: whenever manifest_json_ex_buf returns Ok, cur_padding is what
\* it was when that call was entered; when it returns Err, cur_padding is
\* left as it stands, not truncated: it still begins with what it was at
\* entry and a container that fails inside its loop leaves its padding in
\* it; and an element at depth d is written under d+1 copies of the padding.
C8_PaddingRestoredOnOkKeptOnErr ==
    /\ []PaddingTracksDepth
    /\ [][(stack # <<>> /\ Top.fn = "manifest_json_ex_buf" /\ stack' = Front(stack)) =>
             /\ status' \in {"run", "ok"} => cur_padding' = Top.pad_in
             /\ status' \in {"unwind", "err"} =>
                   /\ cur_padding' = cur_padding
                   /\ IsPrefix(Top.pad_in, cur_padding)
                   /\ Top.pc = "loop" =>
                         IsPrefix(Top.pad_in \o Top.options.padding, cur_padding)]_vars

\* [[function]] under Manifest with 4 spaces: the call failed two containers
\* deep and cur_padding still holds both paddings.
C8_Witness ==
    /\ status = "err"
    /\ val = VArr(<<Evaluated(VArr(<<Evaluated(VFunc)>>))>>)
    /\ format = JsonFormat(JsonFormat_default)
    /\ cur_padding = Spaces(8)

(***************************************************************************)
(* C9  Descriptions on a failure.                                          *)
(***************************************************************************)
\* C9: the failure a manifestation returns keeps the category it was raised
\* with and carries one description per container level it passed, innermost
\* first: "evaluation" at the level whose element or field failed to force,
\* "manifestification" at every level whose element or field was being
\* written, the stream adapter's own being the outermost; while it
\* propagates, each activation still on the stack is to add exactly one.
C9_DescriptionsLayeredInnermostFirst ==
    /\ status \in {"unwind", "err"} =>
           /\ err.msg = FailureBy(format, val).msg
           /\ IsPrefix(err.trail, FailureBy(format, val).trail)
           /\ Len(err.trail) + Len(stack) = Len(FailureBy(format, val).trail)
    /\ status = "err" =>
           /\ \A k \in 2..Len(err.trail) : err.trail[k].tier = "manifestification"
           /\ err.trail # <<>> =>
                  (err.trail[1].tier = "evaluation" <=> err.msg = "evaluation failed")

\* [{a: <failing>}] through the stream adapter over Minify: the field's
\* evaluation, then the stream's element.
C9_Witness ==
    /\ status = "err"
    /\ val = VArr(<<Evaluated(VObj(TRUE, FieldsOf(<<Failing>>)))>>)
    /\ format = YamlStreamFormat_cli(JsonFormat(minify))
    /\ err.msg = "evaluation failed"
    /\ err.trail = <<DescField(0, <<97>>, "evaluation"), DescElem(0, "manifestification")>>

(***************************************************************************)
(* C10  Truncation of long strings.                                        *)
(***************************************************************************)
\* C10: writing a string never fails, and under a truncation length L a
\* string of more than L characters is written as the literal of its first
\* L/2 characters, "..", and its last L/2 characters, any other string in
\* full.
C10_TruncationCountsCharacters ==
    /\ status # "panic"
    /\ status = "ok" => buf = RenderedBy(format, val)

====
